---------------------------- MODULE Spec2Model ----------------------------
(***************************************************************************)
(* Model of the crypto swing-trading pipeline:                             *)
(*   src/src/data_collector.py     CoinGeckoDataAgent.collect_data         *)
(*   src/src/technical_analyzer.py TechnicalAnalyzer.analyze_coin/_all     *)
(*   src/src/scoring_selector.py   ScoringSelector                         *)
(*   src/app.py                    run_crypto_analysis                     *)
(*                                                                         *)
(* Numbers.  Python floats are held as exact fixed-point integers:         *)
(*   price, ema, atr      in 1e-7 USD   (100 USD = 1000000000)             *)
(*   price levels         in 1e-6 USD   (the code rounds them to 6 places) *)
(*   market_cap, volume   in 1000 USD   (100,000,000 USD = 100000)         *)
(*   atr_percent          in 1/100 of a percent                            *)
(*   scores, multiplier, risk_reward_t1 in hundredths (7.5 = 750)          *)
(* round(x, n) is Python's round-half-even on the exact value; the input   *)
(* sets below avoid exact decimal ties, where binary floats may round      *)
(* either way.                                                             *)
(*                                                                         *)
(* Price series.  pandas computes the indicators of an OHLC series; a      *)
(* series enters the model as its length together with the values the      *)
(* rolling/ewm computations yield on it (ema_7, ema_25, rsi, macd          *)
(* histogram, mean true range, change over the last 10 closes).            *)
(***************************************************************************)
EXTENDS Integers, Sequences, FiniteSets, TLC

VARIABLES
    coins,          \* crypto_data['coins']: the batch handed to analyze_all
    technical_data, \* what analyze_all returned (None before)
    top_signals,    \* what select_top_opportunities returned
    selected_file,  \* contents of data/selected_cryptos.json (None if absent)
    raised,         \* the exception that escaped the last entry-point call
    pc,             \* position of the caller in the pipeline
    clock,          \* datetime.now()
    runs,           \* results of the completed passes over the same batch
    api,            \* what the CoinGecko API answers to collect_data
    report,         \* the data run_crypto_analysis passed to the notifier
    last_run,       \* app.py global last_run
    call            \* a single call of a pure function: its argument and result

vars == <<coins, technical_data, top_signals, selected_file, raised, pc,
          clock, runs, api, report, last_run, call>>

None == [none |-> TRUE]

-----------------------------------------------------------------------------
(* Program constants *)

\* scoring_selector.py:45  MIN_SCORE = 7.5 (hundredths)
MIN_SCORE == 750
\* scoring_selector.py:46  MIN_MARKET_CAP = 100_000_000 (thousands of USD)
MIN_MARKET_CAP == 100000
\* scoring_selector.py:52,54  market_cap_multiplier thresholds (thousands of USD)
CAP_LARGE == 10000000
CAP_MID == 1000000
\* scoring_selector.py:167  scored_coins[:10]
TOP_N == 10
\* technical_analyzer.py:79  len(ohlc_data) < 20
MIN_BARS == 20
\* technical_analyzer.py:107  volume_24h > 10_000_000 (thousands of USD)
VOLUME_SURGE == 10000
\* scoring_selector.py:78  volume_24h > 50_000_000 (thousands of USD)
VOLUME_HIGH == 50000
\* data_collector.py:128  min(25, len(tradeable_coins))
MAX_PROCESS == 25

-----------------------------------------------------------------------------
(* Arithmetic helpers *)

Min(a, b) == IF a < b THEN a ELSE b
Max(a, b) == IF a > b THEN a ELSE b

\* Python round(): the integer nearest to n/d (d > 0), ties to the even one.
\* Faulty variant: the digits beyond the last kept one are cut off.
RoundDown(n, d) ==
    n \div d

RoundHalfEven(n, d) ==
    LET q == n \div d
        r == n % d
    IN  IF 2 * r < d THEN q
        ELSE IF 2 * r > d THEN q + 1
        ELSE IF q % 2 = 0 THEN q ELSE q + 1


-----------------------------------------------------------------------------
(* technical_analyzer.py *)

\* coin_data.get('ohlc', []): an absent series reads as the empty one.
EmptySeries ==
    [len |-> 0, ema_7 |-> 0, ema_25 |-> 0, avg_gain |-> 0, avg_loss |-> 0,
     macd_hist |-> 0, mean_tr |-> 0, close_10 |-> 1, close_last |-> 1]

GetOhlc(coin_data) ==
    IF "ohlc" \in coin_data.missing THEN EmptySeries ELSE coin_data.ohlc

\* prices.ewm(span=period, adjust=False).mean().iloc[-1]
calculate_ema(series, period) ==
    IF period = 7 THEN series.ema_7 ELSE series.ema_25

\* Faulty variant: a window without a falling step reads as neutral.
RsiNeutralWithoutLoss(series, period) ==
    IF series.len < period + 1 \/ series.avg_loss = 0 THEN 5000
    ELSE (10000 * series.avg_gain) \div (series.avg_gain + series.avg_loss)

\* IEEE division gain/loss and 100 - 100/(1 + rs), then the pd.notna test:
\*   0/0 is NaN (-> 50.0), g/0 is inf (-> rsi 100), else rsi = 100*g/(g+l).
\* Result in hundredths.
calculate_rsi(series, period) ==
    IF series.len < period + 1 THEN 5000
    ELSE IF series.avg_loss = 0
         THEN IF series.avg_gain = 0 THEN 5000 ELSE 10000
         ELSE (10000 * series.avg_gain) \div (series.avg_gain + series.avg_loss)

calculate_macd(series) ==
    IF series.len < 26 THEN [histogram |-> 0, bullish |-> FALSE]
    ELSE [histogram |-> series.macd_hist, bullish |-> series.macd_hist > 0]

calculate_atr(series, period) ==
    IF series.len < period + 1 THEN 0 ELSE series.mean_tr

\* change_pct = (last - first) / first * 100 compared with +3 and -3;
\* strength = min(|change_pct| / 5, 5), in hundredths.
detect_trend(series) ==
    LET first == series.close_10
        diff == series.close_last - series.close_10
        mag == IF diff < 0 THEN 0 - diff ELSE diff
        strength == Min((mag * 10000) \div (first * 5), 500)
    IN  IF series.len < 10 THEN [trend |-> "neutral", strength |-> 0]
        ELSE IF diff * 100 > 3 * first
             THEN [trend |-> "bullish", strength |-> strength]
        ELSE IF diff * 100 < (0 - 3) * first
             THEN [trend |-> "bearish", strength |-> strength]
        ELSE [trend |-> "neutral", strength |-> 0]

\* Faulty variant: only the empty series is turned away.
OnlyEmpty(series) ==
    series.len = 0

\* not ohlc_data or len(ohlc_data) < 20
TooShort(series) ==
    series.len = 0 \/ series.len < MIN_BARS

\* The statements of analyze_coin's try block that raise (TypeError, KeyError,
\* ValueError); every one is caught by its except clause.
AnalyzeRaises(coin_data) ==
    \/ "bar" \in coin_data.missing \cup coin_data.non_numeric
    \/ "current_price" \in coin_data.missing \cup coin_data.non_numeric
    \/ "total_volume" \in coin_data.non_numeric
    \/ "symbol" \in coin_data.missing
    \/ "market_cap" \in coin_data.missing

\* atr / current_price * 100, in hundredths of a percent
AtrPercent(atr, current_price) ==
    IF current_price > 0 THEN (atr * 10000) \div current_price ELSE 0

analyze_coin(coin_data) ==
    LET series == GetOhlc(coin_data)
        ema_7 == calculate_ema(series, 7)
        ema_25 == calculate_ema(series, 25)
        rsi == calculate_rsi(series, 14)
        macd == calculate_macd(series)
        atr == calculate_atr(series, 14)
        trend == detect_trend(series)
        current_price == coin_data.current_price
        volume_24h == IF "total_volume" \in coin_data.missing
                      THEN 0 ELSE coin_data.total_volume
    IN  IF TooShort(series) THEN None
        ELSE IF AnalyzeRaises(coin_data) THEN None
        ELSE [symbol |-> coin_data.symbol,
              price |-> current_price,
              market_cap |-> coin_data.market_cap,
              non_numeric |-> coin_data.non_numeric \cap {"market_cap"},
              volume_24h |-> volume_24h,
              indicators |->
                  [ema_7 |-> ema_7, ema_25 |-> ema_25, rsi |-> rsi,
                   macd |-> macd, atr |-> atr,
                   atr_percent |-> AtrPercent(atr, current_price)],
              signals |->
                  [ema_cross |-> ema_7 > ema_25,
                   ema_aligned |-> current_price > ema_7 /\ ema_7 > ema_25,
                   rsi_bullish |-> 3500 <= rsi /\ rsi <= 7000,
                   rsi_value |-> rsi,
                   macd_signal |-> IF macd.bullish THEN "buy" ELSE "sell",
                   macd_histogram |-> macd.histogram,
                   volume_surge |-> volume_24h > VOLUME_SURGE,
                   trend |-> trend.trend,
                   trend_strength |-> trend.strength]]

RECURSIVE AnalyzedCoins(_)
AnalyzedCoins(cs) ==
    IF cs = <<>> THEN <<>>
    ELSE LET analysis == analyze_coin(Head(cs))
         IN  IF analysis # None
             THEN <<analysis>> \o AnalyzedCoins(Tail(cs))
             ELSE AnalyzedCoins(Tail(cs))

\* analyze_all(crypto_data): the result it returns and writes to
\* data/technical_signals.json.
analyze_all(batch, now) ==
    [timestamp |-> now, analyzed_coins |-> AnalyzedCoins(batch)]

-----------------------------------------------------------------------------
(* scoring_selector.py *)

\* Faulty variant: the lowest band starts at the floor itself.
MultiplierFromFloor(market_cap) ==
    IF market_cap > CAP_LARGE THEN 110
    ELSE IF market_cap > CAP_MID THEN 100
    ELSE IF market_cap >= MIN_MARKET_CAP THEN 95
    ELSE 0

\* Faulty variant: the thresholds are inclusive.
MultiplierInclusive(market_cap) ==
    IF market_cap >= CAP_LARGE THEN 110
    ELSE IF market_cap >= CAP_MID THEN 100
    ELSE IF market_cap >= MIN_MARKET_CAP THEN 95
    ELSE 0

\* In hundredths: 1.1, 1.0, 0.95, 0.0
market_cap_multiplier(market_cap) ==
    IF market_cap > CAP_LARGE THEN 110
    ELSE IF market_cap > CAP_MID THEN 100
    ELSE IF market_cap > MIN_MARKET_CAP THEN 95
    ELSE 0

\* Faulty variant: the risk score is not clipped at 0.
RiskUnclipped(atr_pct) ==
    10000 - 12 * atr_pct

\* Risk before rounding, in thousandths: max(0, 10 - atr_pct * 1.2)
RiskScore(atr_pct) ==
    Max(0, 10000 - 12 * atr_pct)

\* indicators.get('atr_percent', 5)
GetAtrPercent(indicators) ==
    IF "atr_percent" \in DOMAIN indicators THEN indicators.atr_percent ELSE 500

\* calculate_score: sub-scores and final score, each round(x, 2), in hundredths.
\* Before rounding final is held in units of 1e-5 and, once multiplied by the
\* multiplier (hundredths), of 1e-7.
calculate_score(analysis) ==
    LET signals == analysis.signals
        momentum == 2 + (IF signals.ema_aligned THEN 4 ELSE 0)
                      + (IF signals.ema_cross THEN 2 ELSE 0)
                      + (IF signals.rsi_bullish THEN 2 ELSE 0)
        momentum_score == Min(momentum, 10)
        volume == 4 + (IF signals.volume_surge THEN 3 ELSE 0)
                    + (IF analysis.volume_24h > VOLUME_HIGH THEN 3 ELSE 0)
        volume_score == Min(volume, 10)
        technical == 3 + (IF signals.macd_signal = "buy" THEN 3 ELSE 0)
                       + (IF signals.trend = "bullish" THEN 2 ELSE 0)
                       + (IF 4000 <= signals.rsi_value /\ signals.rsi_value <= 6000
                          THEN 2 ELSE 0)
        technical_score == Min(technical, 10)
        risk_score == RiskScore(GetAtrPercent(analysis.indicators))
        final == (momentum_score * 35 + volume_score * 25 + technical_score * 25)
                     * 1000 + risk_score * 15
        scaled == final * market_cap_multiplier(analysis.market_cap)
    IN  [momentum_score |-> momentum_score * 100,
         volume_score |-> volume_score * 100,
         technical_score |-> technical_score * 100,
         risk_score |-> RoundHalfEven(risk_score, 10),
         final_score |-> RoundHalfEven(scaled, 100000)]

\* round(price * k / 1000, 6): price in 1e-7 USD, result in 1e-6 USD.
\* The product is split so that it stays within TLC's 32-bit integers.
Level(price, k) ==
    LET hi == k * (price \div 10000)
        lo == k * (price % 10000)
        q == hi + (lo \div 10000)
        r == lo % 10000
    IN  IF 2 * r < 10000 THEN q
        ELSE IF 2 * r > 10000 THEN q + 1
        ELSE IF q % 2 = 0 THEN q ELSE q + 1

\* risk = price - stop_loss and (target_1 - price) / risk are taken on the
\* unrounded products: risk = price * (1000 - 975) / 1000, positive exactly
\* when price is, and target_1 - price = price * (1100 - 1000) / 1000; price
\* cancels in the quotient (the products themselves exceed 32 bits).
RiskReward(price) ==
    IF price > 0
    THEN RoundHalfEven(100 * (1100 - 1000), 1000 - 975)
    ELSE 0

calculate_levels(price, atr) ==
    [entry_zone |-> <<Level(price, 985), Level(price, 1015)>>,
     stop_loss |-> Level(price, 975),
     target_1 |-> Level(price, 1100),
     target_2 |-> Level(price, 1200),
     risk_reward_t1 |-> RiskReward(price)]

\* analysis['indicators'].get('atr', analysis['price'] * 0.02)
GetAtr(analysis) ==
    IF "atr" \in DOMAIN analysis.indicators
    THEN analysis.indicators.atr
    ELSE analysis.price \div 50

\* CryptoSignal(...) of one qualifying analysis
MakeSignal(analysis, scores, now) ==
    LET levels == calculate_levels(analysis.price, GetAtr(analysis))
    IN  [symbol |-> analysis.symbol,
         pair |-> <<analysis.symbol, "USDT">>,
         price |-> analysis.price,
         market_cap |-> analysis.market_cap,
         volume_24h |-> analysis.volume_24h,
         technical_score |-> scores.technical_score,
         momentum_score |-> scores.momentum_score,
         volume_score |-> scores.volume_score,
         risk_score |-> scores.risk_score,
         final_score |-> scores.final_score,
         signals |-> analysis.signals,
         entry_zone |-> levels.entry_zone,
         stop_loss |-> levels.stop_loss,
         target_1 |-> levels.target_1,
         target_2 |-> levels.target_2,
         btc_correlation |-> 75,
         timestamp |-> now]

\* analysis['market_cap'] < MIN_MARKET_CAP raises TypeError on a value that is
\* not a number; select_top_opportunities has no handler for it.
CapCompareRaises(analysis) ==
    "market_cap" \in analysis.non_numeric

BelowMarketCap(analysis) ==
    analysis.market_cap < MIN_MARKET_CAP

\* Faulty variant: the score floor is not applied.
NeverBelowMinScore(scores) ==
    FALSE

BelowMinScore(scores) ==
    scores.final_score < MIN_SCORE

\* Faulty variant: the list outlives the call and starts as the previous call left it.
StaleScoredCoins == top_signals

\* scored_coins = []
NewScoredCoins == <<>>

\* The for loop of select_top_opportunities over analyzed_coins, in order.
RECURSIVE ScoreLoop(_, _, _)
ScoreLoop(analyzed, scored_coins, now) ==
    IF analyzed = <<>> THEN scored_coins
    ELSE LET analysis == Head(analyzed)
             scores == calculate_score(analysis)
         IN  IF BelowMarketCap(analysis)
             THEN ScoreLoop(Tail(analyzed), scored_coins, now)
             ELSE IF BelowMinScore(scores)
             THEN ScoreLoop(Tail(analyzed), scored_coins, now)
             ELSE ScoreLoop(Tail(analyzed),
                            Append(scored_coins, MakeSignal(analysis, scores, now)),
                            now)

\* Faulty variant: x goes before the elements that tie with it.
RECURSIVE InsertBeforeTies(_, _)
InsertBeforeTies(sorted, x) ==
    IF sorted = <<>> THEN <<x>>
    ELSE IF Head(sorted).final_score > x.final_score
         THEN <<Head(sorted)>> \o InsertBeforeTies(Tail(sorted), x)
         ELSE <<x>> \o sorted

\* One step of a stable descending sort: x goes after every element whose
\* final_score is >= its own.
RECURSIVE InsertDesc(_, _)
InsertDesc(sorted, x) ==
    IF sorted = <<>> THEN <<x>>
    ELSE IF Head(sorted).final_score >= x.final_score
         THEN <<Head(sorted)>> \o InsertDesc(Tail(sorted), x)
         ELSE <<x>> \o sorted

RECURSIVE SortFrom(_, _)
SortFrom(sorted, rest) ==
    IF rest = <<>> THEN sorted
    ELSE SortFrom(InsertDesc(sorted, Head(rest)), Tail(rest))

\* scored_coins.sort(key=lambda x: x.final_score, reverse=True): list.sort is
\* stable, and with reverse=True equal keys keep their original order.
SortByScoreDesc(scored_coins) ==
    SortFrom(<<>>, scored_coins)

\* Faulty variant: the list is not cut.
NoTruncate(scored_coins) ==
    scored_coins

\* scored_coins[:10]
Truncate(scored_coins) ==
    SubSeq(scored_coins, 1, Min(TOP_N, Len(scored_coins)))

\* Faulty variant: the count is taken of the truncated list.
CountTop(scored_coins, top) ==
    Len(top)

\* len(scored_coins), taken after the sort and before the truncation
CountQualified(scored_coins, top) ==
    Len(scored_coins)

\* select_top_opportunities(technical_data): whether it raised, what it
\* returned and what it wrote to data/selected_cryptos.json.
select_top_opportunities(td, now) ==
    LET analyzed == td.analyzed_coins
        scored_coins == SortByScoreDesc(ScoreLoop(analyzed, NewScoredCoins, now))
        top == Truncate(scored_coins)
    IN  IF \E i \in 1..Len(analyzed) : CapCompareRaises(analyzed[i])
        THEN [raised |-> "TypeError", top_signals |-> <<>>, file |-> None]
        ELSE [raised |-> "",
              top_signals |-> top,
              file |-> [timestamp |-> now,
                        total_analyzed |-> Len(analyzed),
                        total_qualified |-> CountQualified(scored_coins, top),
                        top_opportunities |-> top]]

-----------------------------------------------------------------------------
(* data_collector.py *)

\* coin['symbol'].upper() on the tickers of the model
Upper(symbol) ==
    CASE symbol = "usdt" -> "USDT"
      [] symbol = "shib" -> "SHIB"
      [] symbol = "eth" -> "ETH"
      [] OTHER -> symbol

\* collect_data's list of stablecoins and wrapped tokens
excluded ==
    {"USDT", "USDC", "DAI", "BUSD", "USDS", "USDE", "PYUSD", "TUSD", "FDUSD",
     "USDT0", "BSC-USD"}

\* float(coin[field]) if coin[field] else 0: null and 0 both give 0
FloatOrZero(coin, field) ==
    IF field \in coin.null THEN 0 ELSE coin[field]

RECURSIVE Tradeable(_)
Tradeable(listed) ==
    IF listed = <<>> THEN <<>>
    ELSE IF Upper(Head(listed).symbol) \notin excluded
         THEN <<Head(listed)>> \o Tradeable(Tail(listed))
         ELSE Tradeable(Tail(listed))

\* The loop over tradeable_coins[:coins_to_process]: a coin is saved when its
\* fetched OHLC frame is not empty and has at least 20 rows.
RECURSIVE Collected(_)
Collected(listed) ==
    IF listed = <<>> THEN <<>>
    ELSE LET coin == Head(listed)
         IN  IF coin.ohlc.len # 0 /\ coin.ohlc.len >= MIN_BARS
             THEN <<[symbol |-> Upper(coin.symbol),
                     current_price |-> FloatOrZero(coin, "current_price"),
                     market_cap |-> FloatOrZero(coin, "market_cap"),
                     total_volume |-> FloatOrZero(coin, "total_volume"),
                     ohlc |-> coin.ohlc,
                     missing |-> {},
                     non_numeric |-> {}]>> \o Collected(Tail(listed))
             ELSE Collected(Tail(listed))

\* collect_data(): crypto_data['coins'] from what the API lists
collect_data(listed) ==
    LET tradeable_coins == Tradeable(listed)
        coins_to_process == Min(MAX_PROCESS, Len(tradeable_coins))
    IN  Collected(SubSeq(tradeable_coins, 1, coins_to_process))

\* Seconds between API calls
REQUEST_DELAY == 3

\* What one requests.get of fetch_ohlc_with_retry can come to: bars, an empty
\* body, a rate-limit status, another HTTP error status (raise_for_status
\* raises HTTPError), a connection error, a timeout, a body that is not JSON,
\* and JSON that does not fit the five columns
Responses ==
    {"bars", "empty", "429", "404", "500", "connection_error", "timeout",
     "not_json", "bad_shape"}

\* No bars: pd.DataFrame()
EmptyFrame == [bars |-> FALSE]
\* The parsed bars of the response
BarsFrame == [bars |-> TRUE]

\* "429" in str(e) for the HTTPError of raise_for_status. A 429 status never
\* reaches raise_for_status; the message of another status holds the request
\* URL, and with it the coin id.
MessageHas429(coin_id, response) ==
    response \in {"404", "500"} /\ coin_id.has_429

\* The iteration ends in continue
Retries(coin_id, response) ==
    response = "429" \/ MessageHas429(coin_id, response)

\* The value an iteration returns when it does not continue
Fetched(response) ==
    IF response = "bars" THEN BarsFrame ELSE EmptyFrame

-----------------------------------------------------------------------------
(* Bounds and input sets *)

\* Longest batch handed to analyze_all when the records are arbitrary
MaxCoins == 2
\* Longest batch of well-formed records (more than TOP_N can qualify)
MaxLong == 12
\* In such a batch, the places where a record differs in kind from the one
\* before it
MaxChanges == 2
\* Passes of analyze_all + select_top_opportunities over one batch
MaxRuns == 2

\* 0.2 USD, in 1e-7 USD
BasePrice == 2 * 1000000

Series(len, e7, e25, gain, loss, hist, tr, last) ==
    [len |-> len, ema_7 |-> e7, ema_25 |-> e25, avg_gain |-> gain,
     avg_loss |-> loss, macd_hist |-> hist, mean_tr |-> tr,
     close_10 |-> 100, close_last |-> last]

Coin(price, cap, vol, series) ==
    [symbol |-> 0, current_price |-> price, market_cap |-> cap,
     total_volume |-> vol, ohlc |-> series, missing |-> {}, non_numeric |-> {}]

\* (ema_7, ema_25) around BasePrice: aligned, crossed only, neither
EmaPairs ==
    {<<BasePrice - 1000, BasePrice - 2000>>, <<BasePrice + 1000, BasePrice>>,
     <<BasePrice - 1000, BasePrice>>}

\* avg_gain out of avg_gain + avg_loss = 20: rsi 30, 35, 40, 60, 70, 75
GainVals == {6, 7, 8, 12, 14, 15}

\* mean true range: 0.01 %, 2.05 %, 5.01 % and 7.24 % of BasePrice
AtrVals == {200, 41000, 100200, 144800}

CapVals ==
    {0, MIN_MARKET_CAP - 1, MIN_MARKET_CAP, MIN_MARKET_CAP + 1,
     CAP_MID, CAP_MID + 1, CAP_LARGE, CAP_LARGE + 1}

VolVals == {VOLUME_SURGE, VOLUME_SURGE + 1, VOLUME_HIGH, VOLUME_HIGH + 1}

\* Prices for single calls of calculate_levels, in 1e-7 USD:
\* 0, 1e-5, 2e-4, 1e-3, 0.2 and 100 USD
PriceVals == {0, 100, 2000, 10000, BasePrice, 1000000000}

LevelAtrVals == {0, 5, 40000}

\* Default period of calculate_rsi
RSI_PERIOD == 14

\* Series for single calls of calculate_rsi: one point short of the window,
\* just long enough, and longer; windows without a falling step (avg_loss 0),
\* without any step at all, and with both
RsiSeries ==
    {Series(len, BasePrice, BasePrice, gain, loss, 0, 0, 100) :
         len \in {RSI_PERIOD, RSI_PERIOD + 1, 30}, gain \in {0, 5, 20},
         loss \in {0, 5}}

\* A strong series: every signal set, no volatility
StrongSeries ==
    Series(30, BasePrice - 1000, BasePrice - 2000, 10, 10, 1, 0, 104)
\* A weaker one: no MACD signal, rsi 70, 2.05 % volatility
FairSeries ==
    Series(30, BasePrice - 1000, BasePrice - 2000, 14, 6, 0, 41000, 104)
\* No signal at all
WeakSeries ==
    Series(30, BasePrice + 1000, BasePrice + 2000, 15, 5, 0, 41000, 96)

\* Well-formed records: two that qualify with different scores and one below
\* the market-cap floor
LongCoins ==
    {Coin(BasePrice, CAP_LARGE + 1, VOLUME_HIGH + 1, StrongSeries),
     Coin(BasePrice, CAP_MID + 1, VOLUME_HIGH + 1, FairSeries),
     Coin(BasePrice, MIN_MARKET_CAP - 1, VOLUME_HIGH + 1, StrongSeries)}

GoodCoin == Coin(BasePrice, CAP_LARGE + 1, VOLUME_HIGH + 1, StrongSeries)

\* Arbitrary records: well-formed ones, short or absent series, and missing or
\* non-numeric fields
EntryCoins ==
    {GoodCoin,
     Coin(100, CAP_MID + 1, VOLUME_HIGH + 1, FairSeries),
     Coin(BasePrice, MIN_MARKET_CAP, VOLUME_HIGH + 1, StrongSeries),
     Coin(BasePrice, CAP_LARGE + 1, VOLUME_HIGH + 1, WeakSeries),
     Coin(BasePrice, CAP_LARGE + 1, VOLUME_HIGH + 1,
          [StrongSeries EXCEPT !.len = 19]),
     Coin(BasePrice, CAP_LARGE + 1, VOLUME_HIGH + 1,
          [StrongSeries EXCEPT !.len = 0]),
     [GoodCoin EXCEPT !.missing = {"ohlc"}],
     [GoodCoin EXCEPT !.missing = {"current_price"}],
     [GoodCoin EXCEPT !.non_numeric = {"bar"}],
     [GoodCoin EXCEPT !.missing = {"market_cap"}],
     [GoodCoin EXCEPT !.non_numeric = {"market_cap"}]}

\* The batch's i-th record carries i as its symbol
Named(coin, i) == [coin EXCEPT !.symbol = i]

\* The places of a batch where the record differs from the one before it in
\* more than its symbol
Changes(batch) ==
    Cardinality({i \in 1..(Len(batch) - 1) :
                    Named(batch[i], 0) # Named(batch[i + 1], 0)})

-----------------------------------------------------------------------------
(* A caller of the two entry points: analyze_all, then                      *)
(* select_top_opportunities on its result, possibly again on the same batch *)

NoCall == [fn |-> "", arg |-> None, done |-> FALSE, ret |-> None]
NeverRun == [status |-> "Never run", signals |-> 0]

InitPipeline ==
    /\ coins = <<>>
    /\ technical_data = None
    /\ top_signals = <<>>
    /\ selected_file = None
    /\ raised = ""
    /\ pc = "input"
    /\ clock = 0
    /\ runs = <<>>
    /\ api = <<>>
    /\ report = None
    /\ last_run = NeverRun
    /\ call = NoCall

\* The caller puts one more record, of any shape, into the batch.
SupplyAny ==
    /\ pc = "input"
    /\ Len(coins) < MaxCoins
    /\ \E coin \in EntryCoins :
           coins' = Append(coins, Named(coin, Len(coins) + 1))
    /\ UNCHANGED <<technical_data, top_signals, selected_file, raised, pc,
                   clock, runs, api, report, last_run, call>>

\* The caller puts one more well-formed record into the batch.
SupplyLong ==
    /\ pc = "input"
    /\ Len(coins) < MaxLong
    /\ \E coin \in LongCoins :
           /\ Changes(Append(coins, coin)) <= MaxChanges
           /\ coins' = Append(coins, Named(coin, Len(coins) + 1))
    /\ UNCHANGED <<technical_data, top_signals, selected_file, raised, pc,
                   clock, runs, api, report, last_run, call>>

\* analyzer.analyze_all(crypto_data): no exception leaves analyze_coin.
CallAnalyzeAll ==
    /\ pc \in {"input", "again"}
    /\ technical_data' = analyze_all(coins, clock)
    /\ raised' = ""
    /\ clock' = clock + 1
    /\ pc' = "analyzed"
    /\ UNCHANGED <<coins, top_signals, selected_file, runs, api, report,
                   last_run, call>>

\* selector.select_top_opportunities(technical_data)
CallSelect ==
    /\ pc = "analyzed"
    /\ \E r \in {select_top_opportunities(technical_data, clock)} :
           /\ raised' = r.raised
           /\ top_signals' = IF r.raised = "" THEN r.top_signals ELSE top_signals
           /\ selected_file' = IF r.raised = "" THEN r.file ELSE selected_file
           /\ runs' = Append(runs, [analyzed |-> technical_data.analyzed_coins,
                                    raised |-> r.raised,
                                    top_signals |-> r.top_signals,
                                    file |-> r.file])
    /\ clock' = clock + 1
    /\ pc' = "selected"
    /\ UNCHANGED <<coins, technical_data, api, report, last_run, call>>

\* The caller starts over on the same crypto_data.
Again ==
    /\ pc = "selected"
    /\ Len(runs) < MaxRuns
    /\ pc' = "again"
    /\ UNCHANGED <<coins, technical_data, top_signals, selected_file, raised,
                   clock, runs, api, report, last_run, call>>

NextEntry == SupplyAny \/ CallAnalyzeAll \/ CallSelect \/ Again

SpecEntry == InitPipeline /\ [][NextEntry]_vars

NextLong == SupplyLong \/ CallAnalyzeAll \/ CallSelect

SpecLong == InitPipeline /\ [][NextLong]_vars

-----------------------------------------------------------------------------
(* Single calls of the pure functions *)

Pending(fn, arg) == [fn |-> fn, arg |-> arg, done |-> FALSE, ret |-> None]

\* The coins are those of the input sets above; the second group has 10 %
\* volatility (risk clipped at 0) under the multipliers 0.0 and 1.0, where the
\* final score is not an exact decimal tie.
InitUnit ==
    /\ coins = <<>>
    /\ technical_data = None
    /\ top_signals = <<>>
    /\ selected_file = None
    /\ raised = ""
    /\ pc = "unit"
    /\ clock = 0
    /\ runs = <<>>
    /\ api = <<>>
    /\ report = None
    /\ last_run = NeverRun
    /\ \/ \E cap \in CapVals : call = Pending("market_cap_multiplier", cap)
       \/ \E series \in RsiSeries : call = Pending("calculate_rsi", series)
       \/ \E price \in PriceVals, atr \in LevelAtrVals :
              call = Pending("calculate_levels", [price |-> price, atr |-> atr])
       \/ \E cap \in CapVals, vol \in VolVals, len \in {19, 20, 30},
             e \in EmaPairs, g \in GainVals, hist \in {0, 1}, tr \in AtrVals,
             last \in {96, 103, 104} :
              call = Pending("calculate_score",
                             Coin(BasePrice, cap, vol,
                                  Series(len, e[1], e[2], g, 20 - g, hist, tr,
                                         last)))
       \/ \E cap \in {MIN_MARKET_CAP, CAP_MID + 1, CAP_LARGE}, vol \in VolVals,
             e \in EmaPairs, g \in GainVals, hist \in {0, 1},
             last \in {96, 103, 104} :
              call = Pending("calculate_score",
                             Coin(BasePrice, cap, vol,
                                  Series(30, e[1], e[2], g, 20 - g, hist,
                                         BasePrice \div 10, last)))

Return(value) ==
    /\ call' = [call EXCEPT !.done = TRUE, !.ret = value]
    /\ UNCHANGED <<coins, technical_data, top_signals, selected_file, raised,
                   pc, clock, runs, api, report, last_run>>

CallMultiplier ==
    /\ call.fn = "market_cap_multiplier"
    /\ ~call.done
    /\ Return(market_cap_multiplier(call.arg))

CallLevels ==
    /\ call.fn = "calculate_levels"
    /\ ~call.done
    /\ Return(calculate_levels(call.arg.price, call.arg.atr))

CallRsi ==
    /\ call.fn = "calculate_rsi"
    /\ ~call.done
    /\ Return(calculate_rsi(call.arg, RSI_PERIOD))

\* analyze_coin(coin_data) and, on an analysis, calculate_score(analysis) and
\* the test of the score floor that select_top_opportunities makes on it
CallScore ==
    /\ call.fn = "calculate_score"
    /\ ~call.done
    /\ \E analysis \in {analyze_coin(call.arg)} :
           \E scores \in {IF analysis = None THEN None
                          ELSE calculate_score(analysis)} :
               Return([analysis |-> analysis,
                       scores |-> scores,
                       below |-> IF analysis = None THEN FALSE
                                 ELSE BelowMinScore(scores)])

NextUnit == CallMultiplier \/ CallLevels \/ CallRsi \/ CallScore

SpecUnit == InitUnit /\ [][NextUnit]_vars

-----------------------------------------------------------------------------
(* data_collector.py: one call of fetch_ohlc_with_retry. runs is the list of *)
(* responses to the requests made so far, clock the seconds slept.          *)

\* Largest max_retries of a call (the default is 3)
MaxRetries == 3

\* Coin ids: with and without the digits 429 in them
CoinIds == {[has_429 |-> FALSE], [has_429 |-> TRUE]}

InitFetch ==
    /\ coins = <<>>
    /\ technical_data = None
    /\ top_signals = <<>>
    /\ selected_file = None
    /\ raised = ""
    /\ pc = "fetch"
    /\ clock = 0
    /\ runs = <<>>
    /\ api = <<>>
    /\ report = None
    /\ last_run = NeverRun
    /\ \E coin_id \in CoinIds, max_retries \in 0..MaxRetries :
           call = Pending("fetch_ohlc_with_retry",
                          [coin_id |-> coin_id, max_retries |-> max_retries])

FetchUnchanged ==
    UNCHANGED <<coins, technical_data, top_signals, selected_file, raised, pc,
                api, report, last_run>>

\* One iteration of the loop: the sleep, the request, and either continue
\* after the longer wait or a return
FetchAttempt ==
    /\ pc = "fetch"
    /\ call.fn = "fetch_ohlc_with_retry"
    /\ ~call.done
    /\ Len(runs) < call.arg.max_retries
    /\ \E response \in Responses :
           /\ runs' = Append(runs, response)
           /\ IF Retries(call.arg.coin_id, response)
              THEN /\ clock' = clock + REQUEST_DELAY
                                     + REQUEST_DELAY * (Len(runs) + 2)
                   /\ call' = call
              ELSE /\ clock' = clock + REQUEST_DELAY
                   /\ call' = [call EXCEPT !.done = TRUE,
                                           !.ret = Fetched(response)]
    /\ FetchUnchanged

\* The return after the loop
FetchExhausted ==
    /\ pc = "fetch"
    /\ call.fn = "fetch_ohlc_with_retry"
    /\ ~call.done
    /\ Len(runs) >= call.arg.max_retries
    /\ call' = [call EXCEPT !.done = TRUE, !.ret = EmptyFrame]
    /\ UNCHANGED <<clock, runs>>
    /\ FetchUnchanged

NextFetch == FetchAttempt \/ FetchExhausted

SpecFetch == InitFetch /\ [][NextFetch]_vars

-----------------------------------------------------------------------------
(* app.py: one invocation of run_crypto_analysis *)

\* Coins listed by the API in one invocation
MaxListed == 2

ApiCoin(symbol, price, cap, series, null) ==
    [symbol |-> symbol, current_price |-> price, market_cap |-> cap,
     total_volume |-> VOLUME_HIGH + 1, ohlc |-> series, null |-> null]

\* What /coins/markets and /coins/{id}/ohlc may answer for one coin: a strong
\* coin, a micro-priced one, a coin without signals, a stablecoin, a coin whose
\* market_cap is null, one whose current_price is null, a short history and a
\* failed OHLC fetch
ApiCoins ==
    {ApiCoin("eth", BasePrice, CAP_LARGE + 1, StrongSeries, {}),
     ApiCoin("eth", 0, CAP_LARGE + 1, StrongSeries, {"current_price"}),
     ApiCoin("shib", 100, CAP_MID + 1, FairSeries, {}),
     ApiCoin("eth", BasePrice, CAP_LARGE + 1, WeakSeries, {}),
     ApiCoin("usdt", BasePrice, CAP_LARGE + 1, StrongSeries, {}),
     ApiCoin("eth", BasePrice, 0, StrongSeries, {"market_cap"}),
     ApiCoin("eth", BasePrice, CAP_LARGE + 1, [StrongSeries EXCEPT !.len = 19], {}),
     ApiCoin("eth", BasePrice, CAP_LARGE + 1, EmptySeries, {})}

InitApp ==
    /\ coins = <<>>
    /\ technical_data = None
    /\ top_signals = <<>>
    /\ selected_file = None
    /\ raised = ""
    /\ pc = "start"
    /\ clock = 0
    /\ runs = <<>>
    /\ api = <<>>
    /\ report = None
    /\ last_run = NeverRun
    /\ call = NoCall

\* Faulty variant: a failure is recorded as a success.
FailedAsSuccess(why) ==
    [status |-> "Success", signals |-> 0]

Failed(why) ==
    [status |-> why, signals |-> 0]

\* telegram_notifier.py: signals formatted by send_analysis_report, and the
\* final_score from which send_high_score_alert sends an alert (hundredths)
REPORT_TOP == 3
ALERT_SCORE == 850

\* format_signal_telegram divides by signal['price']: ZeroDivisionError on a
\* price of 0, raised out of send_analysis_report after the header was sent
ReportRaises(data) ==
    \E i \in 1..Min(REPORT_TOP, Len(data.top_opportunities)) :
        data.top_opportunities[i].price = 0

\* send_high_score_alert divides by signal.price
AlertRaises(signals) ==
    \E i \in 1..Len(signals) :
        signals[i].final_score >= ALERT_SCORE /\ signals[i].price = 0

\* data_agent.collect_data() and the test of crypto_data['coins']
RunCollect ==
    /\ pc = "start"
    /\ \E n \in 0..MaxListed :
           \E listed \in [1..n -> ApiCoins] :
               /\ api' = listed
               /\ coins' = collect_data(listed)
    /\ IF coins' = <<>>
       THEN last_run' = Failed("Failed - No data") /\ pc' = "done"
       ELSE last_run' = last_run /\ pc' = "collected"
    /\ clock' = clock + 1
    /\ UNCHANGED <<technical_data, top_signals, selected_file, raised, runs,
                   report, call>>

\* analyzer.analyze_all(crypto_data) and the test of analyzed_coins
RunAnalyze ==
    /\ pc = "collected"
    /\ technical_data' = analyze_all(coins, clock)
    /\ IF technical_data'.analyzed_coins = <<>>
       THEN last_run' = Failed("Failed - Analysis error") /\ pc' = "done"
       ELSE last_run' = last_run /\ pc' = "analyzed"
    /\ clock' = clock + 1
    /\ UNCHANGED <<coins, top_signals, selected_file, raised, runs, api,
                   report, call>>

\* selector.select_top_opportunities(technical_data); an exception goes to
\* the handler of run_crypto_analysis.
RunSelect ==
    /\ pc = "analyzed"
    /\ \E r \in {select_top_opportunities(technical_data, clock)} :
           /\ raised' = r.raised
           /\ IF r.raised = ""
              THEN /\ top_signals' = r.top_signals
                   /\ selected_file' = r.file
                   /\ last_run' = last_run
                   /\ pc' = "selected"
              ELSE /\ UNCHANGED <<top_signals, selected_file>>
                   /\ last_run' = Failed("Failed - TypeError")
                   /\ pc' = "done"
    /\ clock' = clock + 1
    /\ UNCHANGED <<coins, technical_data, runs, api, report, call>>

\* json.load of data/selected_cryptos.json, send_analysis_report(data), the
\* alerts, and the update of last_run; an exception of the notifier goes to
\* the handler of run_crypto_analysis.
RunReport ==
    /\ pc = "selected"
    /\ report' = selected_file
    /\ IF ReportRaises(selected_file) \/ AlertRaises(top_signals)
       THEN /\ raised' = "ZeroDivisionError"
            /\ last_run' = Failed("Failed - float division by zero")
       ELSE /\ raised' = raised
            /\ last_run' = [status |-> "Success", signals |-> Len(top_signals)]
    /\ pc' = "done"
    /\ UNCHANGED <<coins, technical_data, top_signals, selected_file,
                   clock, runs, api, call>>

Next == RunCollect \/ RunAnalyze \/ RunSelect \/ RunReport

Spec == InitApp /\ [][Next]_vars

-----------------------------------------------------------------------------
(* app.py: the two scheduler jobs that call run_crypto_analysis, each on a   *)
(* thread of the scheduler's pool. Their locals are kept per job in runs;    *)
(* data/selected_cryptos.json (selected_file) and last_run are shared.       *)

Jobs == {"daily_analysis", "manual_trigger"}

\* What the API lists when a job collects
JobListings ==
    {<<>>,
     <<ApiCoin("eth", BasePrice, CAP_LARGE + 1, StrongSeries, {})>>,
     <<ApiCoin("shib", 100, CAP_MID + 1, FairSeries, {})>>,
     <<ApiCoin("eth", BasePrice, CAP_LARGE + 1, WeakSeries, {})>>}

\* The file between open(.., 'w') and the end of the with block
Truncated == [truncated |-> TRUE]
\* The file after one job's bytes were written over another's
Corrupt == [corrupt |-> TRUE]

NewJob ==
    [pc |-> "start", coins |-> <<>>, technical_data |-> None,
     top_signals |-> <<>>, result |-> None, dirty |-> FALSE, report |-> None]

InitOverlap ==
    /\ coins = <<>>
    /\ technical_data = None
    /\ top_signals = <<>>
    /\ selected_file = None
    /\ raised = ""
    /\ pc = "overlap"
    /\ clock = 0
    /\ runs = [j \in Jobs |-> NewJob]
    /\ api = <<>>
    /\ report = None
    /\ last_run = NeverRun
    /\ call = NoCall

JobUnchanged ==
    UNCHANGED <<coins, technical_data, top_signals, raised, pc, api, report,
                call>>

\* data_agent.collect_data() and the test of crypto_data['coins']
JobCollect(j) ==
    /\ pc = "overlap"
    /\ runs[j].pc = "start"
    /\ \E listed \in JobListings :
           \E collected \in {collect_data(listed)} :
               IF collected = <<>>
               THEN /\ runs' = [runs EXCEPT ![j].pc = "done"]
                    /\ last_run' = Failed("Failed - No data")
               ELSE /\ runs' = [runs EXCEPT ![j].pc = "collected",
                                            ![j].coins = collected]
                    /\ last_run' = last_run
    /\ clock' = clock + 1
    /\ selected_file' = selected_file
    /\ JobUnchanged

\* analyzer.analyze_all(crypto_data) and the test of analyzed_coins
JobAnalyze(j) ==
    /\ pc = "overlap"
    /\ runs[j].pc = "collected"
    /\ \E td \in {analyze_all(runs[j].coins, clock)} :
           IF td.analyzed_coins = <<>>
           THEN /\ runs' = [runs EXCEPT ![j].pc = "done",
                                        ![j].technical_data = td]
                /\ last_run' = Failed("Failed - Analysis error")
           ELSE /\ runs' = [runs EXCEPT ![j].pc = "analyzed",
                                        ![j].technical_data = td]
                /\ last_run' = last_run
    /\ clock' = clock + 1
    /\ selected_file' = selected_file
    /\ JobUnchanged

\* select_top_opportunities up to open(self.output_file, 'w'), which empties
\* the file
JobSelect(j) ==
    /\ pc = "overlap"
    /\ runs[j].pc = "analyzed"
    /\ \E r \in {select_top_opportunities(runs[j].technical_data, clock)} :
           IF r.raised = ""
           THEN /\ runs' = [runs EXCEPT ![j].pc = "opened",
                                        ![j].top_signals = r.top_signals,
                                        ![j].result = r.file,
                                        ![j].dirty = FALSE]
                /\ selected_file' = Truncated
                /\ last_run' = last_run
           ELSE /\ runs' = [runs EXCEPT ![j].pc = "done"]
                /\ selected_file' = selected_file
                /\ last_run' = Failed("Failed - TypeError")
    /\ clock' = clock + 1
    /\ JobUnchanged

\* json.dump(result, f) and the close of the file: the bytes go in from offset
\* 0 of this job's handle. If another job has written since this one opened,
\* what was written beyond this job's length stays in the file.
JobDump(j) ==
    /\ pc = "overlap"
    /\ runs[j].pc = "opened"
    /\ selected_file' \in (IF runs[j].dirty THEN {runs[j].result, Corrupt}
                           ELSE {runs[j].result})
    /\ runs' = [k \in Jobs |->
                   IF k = j THEN [runs[k] EXCEPT !.pc = "selected"]
                   ELSE IF runs[k].pc = "opened"
                        THEN [runs[k] EXCEPT !.dirty = TRUE]
                   ELSE runs[k]]
    /\ UNCHANGED <<clock, last_run>>
    /\ JobUnchanged

\* json.load of data/selected_cryptos.json and send_analysis_report(data);
\* json.load raises on an empty or garbled file and the handler of
\* run_crypto_analysis sets last_run.
JobReport(j) ==
    /\ pc = "overlap"
    /\ runs[j].pc = "selected"
    /\ IF selected_file \in {Truncated, Corrupt}
       THEN /\ runs' = [runs EXCEPT ![j].pc = "done"]
            /\ last_run' = Failed("Failed - JSONDecodeError")
       ELSE IF ReportRaises(selected_file)
       THEN /\ runs' = [runs EXCEPT ![j].pc = "done",
                                    ![j].report = selected_file]
            /\ last_run' = Failed("Failed - float division by zero")
       ELSE /\ runs' = [runs EXCEPT ![j].pc = "reported",
                                    ![j].report = selected_file]
            /\ last_run' = last_run
    /\ UNCHANGED <<clock, selected_file>>
    /\ JobUnchanged

\* The alerts for this job's top_signals and the update of last_run
JobFinish(j) ==
    /\ pc = "overlap"
    /\ runs[j].pc = "reported"
    /\ runs' = [runs EXCEPT ![j].pc = "done"]
    /\ last_run' = IF AlertRaises(runs[j].top_signals)
                   THEN Failed("Failed - float division by zero")
                   ELSE [status |-> "Success",
                         signals |-> Len(runs[j].top_signals)]
    /\ UNCHANGED <<clock, selected_file>>
    /\ JobUnchanged

NextOverlap ==
    \E j \in Jobs :
        \/ JobCollect(j)
        \/ JobAnalyze(j)
        \/ JobSelect(j)
        \/ JobDump(j)
        \/ JobReport(j)
        \/ JobFinish(j)

SpecOverlap == InitOverlap /\ [][NextOverlap]_vars

-----------------------------------------------------------------------------
(* Properties *)

\* select_top_opportunities has returned to the caller of the entry points
Selected == pc = "selected" /\ raised = ""

\* The analysis records that pass both floors, by position in analyzed_coins
Qualifying(analyzed) ==
    {i \in 1..Len(analyzed) :
        /\ analyzed[i].market_cap >= 100000
        /\ calculate_score(analyzed[i]).final_score >= 750}

\* C1: top_opportunities has at most 10 entries, none with market_cap below
\* 100,000,000 or final_score below 7.5, and is non-increasing by final_score.
C1_TopBounded ==
    Selected =>
        LET top == selected_file.top_opportunities
        IN  /\ Len(top) <= 10
            /\ top = top_signals
            /\ \A i \in 1..Len(top) :
                   /\ top[i].market_cap >= 100000
                   /\ top[i].final_score >= 750
            /\ \A i, j \in 1..Len(top) :
                   i < j => top[i].final_score >= top[j].final_score

\* More than ten records qualify, with two different scores among the ten
\* kept, and a record below the market-cap floor is in the batch.
C1_Witness ==
    /\ Selected
    /\ selected_file.total_qualified > 10
    /\ Len(top_signals) = 10
    /\ top_signals[1].final_score > top_signals[10].final_score
    /\ \E i \in 1..Len(coins) : coins[i].market_cap < MIN_MARKET_CAP

\* C2: the sort is stable: records with equal final_score keep the order of
\* analyzed_coins, and of tied records the truncation keeps the earliest.
\* (A record's symbol is its position in the batch.)
C2_StableOrder ==
    Selected =>
        LET top == top_signals
            analyzed == technical_data.analyzed_coins
            kept == {top[i].symbol : i \in 1..Len(top)}
        IN  /\ \A i, j \in 1..Len(top) :
                   (i < j /\ top[i].final_score = top[j].final_score)
                       => top[i].symbol < top[j].symbol
            /\ \A q \in Qualifying(analyzed) :
                   analyzed[q].symbol \notin kept =>
                       \A i \in 1..Len(top) :
                           \/ top[i].final_score
                                  > calculate_score(analyzed[q]).final_score
                           \/ /\ top[i].final_score
                                     = calculate_score(analyzed[q]).final_score
                              /\ top[i].symbol < analyzed[q].symbol

\* The tenth kept record ties with one that was cut, and a stronger record
\* that came later in the batch stands before it.
C2_Witness ==
    /\ Selected
    /\ Len(top_signals) = 10
    /\ \E q \in Qualifying(technical_data.analyzed_coins) :
           LET a == technical_data.analyzed_coins[q]
           IN  /\ \A i \in 1..10 : top_signals[i].symbol # a.symbol
               /\ calculate_score(a).final_score = top_signals[10].final_score
    /\ \E i \in 1..9 :
           /\ top_signals[i].symbol > top_signals[i + 1].symbol
           /\ top_signals[i].final_score > top_signals[i + 1].final_score

\* C6: total_analyzed is the number of records given, total_qualified the
\* number that pass both floors, and
\* len(top_opportunities) = min(10, total_qualified) <= total_qualified
\* <= total_analyzed.
C6_Counts ==
    Selected =>
        LET analyzed == technical_data.analyzed_coins
            result == selected_file
        IN  /\ result.total_analyzed = Len(analyzed)
            /\ result.total_qualified = Cardinality(Qualifying(analyzed))
            /\ Len(result.top_opportunities)
                   = (IF result.total_qualified < 10
                      THEN result.total_qualified ELSE 10)
            /\ Len(result.top_opportunities) <= result.total_qualified
            /\ result.total_qualified <= result.total_analyzed

\* Eleven or more of the records qualify and at least one does not.
C6_Witness ==
    /\ Selected
    /\ selected_file.total_qualified > 10
    /\ selected_file.total_analyzed > selected_file.total_qualified
    /\ Len(selected_file.top_opportunities) = 10

\* A record analyze_coin can turn into an analysis that select can score
WellFormed(coin_data) ==
    /\ coin_data.missing = {}
    /\ coin_data.non_numeric = {}
    /\ coin_data.ohlc.len >= 20

\* C3: a malformed record is left out, every other record is processed, and
\* no exception leaves analyze_all or select_top_opportunities.
C3_NoEscape ==
    pc = "selected" =>
        /\ raised = ""
        /\ selected_file # None
        /\ selected_file.total_analyzed
               = Cardinality({i \in 1..Len(coins) : WellFormed(coins[i])})

\* C4: a record whose series has fewer than 20 bars, or none, is not in
\* analyzed_coins and is not counted in total_analyzed, and nothing is raised
\* for it.
C4_ShortSkipped ==
    LET long == {i \in 1..Len(coins) :
                    "ohlc" \notin coins[i].missing /\ coins[i].ohlc.len >= 20}
    IN  /\ pc = "analyzed" =>
               /\ raised = ""
               /\ \A k \in 1..Len(technical_data.analyzed_coins) :
                      technical_data.analyzed_coins[k].symbol \in long
        /\ Selected => selected_file.total_analyzed <= Cardinality(long)

\* A batch of a 19-bar record and a well-formed one: one record analyzed.
C4_Witness ==
    /\ Selected
    /\ Len(coins) = 2
    /\ \E i \in 1..2 : coins[i].ohlc.len = 19 /\ coins[i].missing = {}
    /\ selected_file.total_analyzed = 1

Untimed(signals) ==
    [i \in 1..Len(signals) |-> [signals[i] EXCEPT !.timestamp = 0]]

UntimedRun(run) ==
    [analyzed |-> run.analyzed,
     raised |-> run.raised,
     top_signals |-> Untimed(run.top_signals),
     file |-> IF run.file = None THEN None
              ELSE [run.file EXCEPT
                        !.timestamp = 0,
                        !.top_opportunities = Untimed(run.file.top_opportunities)]]

Returned(fn) == call.fn = fn /\ call.done

\* C7: market_cap_multiplier is 0.0 up to and including 100,000,000, 0.95 up to
\* 1,000,000,000, 1.0 up to 10,000,000,000 and 1.1 above (caps in thousands,
\* multiplier in hundredths).
C7_MultiplierTable ==
    Returned("market_cap_multiplier") =>
        call.ret = (IF call.arg <= 100000 THEN 0
                    ELSE IF call.arg <= 1000000 THEN 95
                    ELSE IF call.arg <= 10000000 THEN 100
                    ELSE 110)

\* The call at exactly 100,000,000 has returned 0.0.
C7_Witness ==
    /\ Returned("market_cap_multiplier")
    /\ call.arg = 100000
    /\ call.ret = 0

\* C8: every sub-score is in [0, 10] and final_score in [0, 11]; with
\* ema_aligned, ema_cross and rsi_bullish all set momentum_score is 10.
C8_ScoreRanges ==
    (Returned("calculate_score") /\ call.ret.analysis # None) =>
        LET scores == call.ret.scores
            signals == call.ret.analysis.signals
        IN  /\ scores.momentum_score \in 0..1000
            /\ scores.volume_score \in 0..1000
            /\ scores.technical_score \in 0..1000
            /\ scores.risk_score \in 0..1000
            /\ scores.final_score \in 0..1100
            /\ (signals.ema_aligned /\ signals.ema_cross /\ signals.rsi_bullish)
                   => scores.momentum_score = 1000

\* All three momentum signals are set, and the volatility is high enough for
\* the risk score to be clipped at 0.
C8_Witness ==
    /\ Returned("calculate_score")
    /\ call.ret.analysis # None
    /\ call.ret.analysis.signals.ema_aligned
    /\ call.ret.analysis.signals.ema_cross
    /\ call.ret.analysis.signals.rsi_bullish
    /\ call.ret.scores.momentum_score = 1000
    /\ call.ret.analysis.indicators.atr_percent > 834
    /\ call.ret.scores.risk_score = 0

\* level = price * k / 1000 exactly (level in 1e-6 USD, price in 1e-7 USD)
ExactLevel(level, price, k) ==
    /\ (k * (price % 10000)) % 10000 = 0
    /\ level = k * (price \div 10000) + (k * (price % 10000)) \div 10000

\* C10: the levels depend on price alone: stop_loss = 0.975 price, entry_zone =
\* [0.985 price, 1.015 price], target_1 = 1.10 price, target_2 = 1.20 price,
\* risk_reward_t1 = 4.0 when price > 0 and 0 otherwise, and for price > 0
\* stop_loss < entry low < price < entry high < target_1 < target_2.
C10_LevelsAsClaimed ==
    Returned("calculate_levels") =>
        LET price == call.arg.price
            levels == call.ret
        IN  /\ \A atr \in LevelAtrVals : calculate_levels(price, atr) = levels
            /\ ExactLevel(levels.stop_loss, price, 975)
            /\ ExactLevel(levels.entry_zone[1], price, 985)
            /\ ExactLevel(levels.entry_zone[2], price, 1015)
            /\ ExactLevel(levels.target_1, price, 1100)
            /\ ExactLevel(levels.target_2, price, 1200)
            /\ levels.risk_reward_t1 = (IF price > 0 THEN 400 ELSE 0)
            /\ price > 0 =>
                   /\ levels.stop_loss < levels.entry_zone[1]
                   /\ levels.entry_zone[1] * 10 < price
                   /\ price < levels.entry_zone[2] * 10
                   /\ levels.entry_zone[2] < levels.target_1
                   /\ levels.target_1 < levels.target_2

\* C5: an invocation in which at least one asset was analyzed and none passes
\* the filters writes and reports a RunResult with no opportunities and
\* total_qualified = 0 and ends with status Success and 0 signals; an
\* invocation that collected no coin ends with status 'Failed - No data', one
\* that analyzed none with 'Failed - Analysis error', and neither writes a
\* RunResult.
C5_EmptySelection ==
    pc = "done" =>
        IF coins = <<>>
        THEN /\ last_run = Failed("Failed - No data")
             /\ selected_file = None
             /\ report = None
        ELSE IF technical_data.analyzed_coins = <<>>
        THEN /\ last_run = Failed("Failed - Analysis error")
             /\ selected_file = None
             /\ report = None
        ELSE Qualifying(technical_data.analyzed_coins) = {} =>
                 /\ selected_file # None
                 /\ selected_file.top_opportunities = <<>>
                 /\ selected_file.total_qualified = 0
                 /\ selected_file.total_analyzed
                        = Len(technical_data.analyzed_coins)
                 /\ report = selected_file
                 /\ last_run = [status |-> "Success", signals |-> 0]

\* Coins were collected and analyzed, none qualified, and the run succeeded.
C5_Witness ==
    /\ pc = "done"
    /\ coins # <<>>
    /\ technical_data # None
    /\ technical_data.analyzed_coins # <<>>
    /\ Qualifying(technical_data.analyzed_coins) = {}
    /\ last_run.status = "Success"
    /\ report # None
    /\ report.top_opportunities = <<>>

\* C5 as stated: whenever no asset passes the filters, also when none was
\* analyzed at all, the run produces a RunResult with no opportunities and
\* total_qualified = 0 and does not end as a failure.
C5_AsClaimed ==
    pc = "done" =>
        ((IF technical_data = None THEN TRUE
          ELSE Qualifying(technical_data.analyzed_coins) = {}) =>
             /\ selected_file # None
             /\ selected_file.top_opportunities = <<>>
             /\ selected_file.total_qualified = 0
             /\ last_run.status = "Success")

\* C11 as stated: calculate_rsi returns 50.0 for a series shorter than
\* period + 1 and, for a longer one, whenever the average loss over the
\* trailing window is 0, whatever the average gain is.
C11_AsClaimed ==
    Returned("calculate_rsi") =>
        ((call.arg.len < RSI_PERIOD + 1 \/ call.arg.avg_loss = 0)
             => call.ret = 5000)

\* C11: calculate_rsi returns 50.0 for a series shorter than period + 1 and
\* when average gain and average loss are both 0 (0/0 is NaN); when the
\* average loss is 0 and the average gain is positive it returns 100.0; in
\* every case the result is in [0, 100].
C11_RsiDefault ==
    Returned("calculate_rsi") =>
        LET series == call.arg
        IN  /\ call.ret \in 0..10000
            /\ series.len < RSI_PERIOD + 1 => call.ret = 5000
            /\ (series.len >= RSI_PERIOD + 1 /\ series.avg_loss = 0) =>
                   call.ret = (IF series.avg_gain = 0 THEN 5000 ELSE 10000)

\* A series of period + 1 points that only rises: the result is 100.0.
C11_Witness ==
    /\ Returned("calculate_rsi")
    /\ call.arg.len = RSI_PERIOD + 1
    /\ call.arg.avg_loss = 0
    /\ call.arg.avg_gain > 0
    /\ call.ret = 10000

Flag(b) == IF b THEN 1 ELSE 0

\* The integer nearest to n / d (the even one of two equally near)
Nearest(n, d) ==
    CHOOSE q \in {n \div d, n \div d + 1} :
        /\ 2 * (n - q * d) <= d
        /\ 2 * (q * d - n) <= d
        /\ (2 * (n - q * d) = d \/ 2 * (q * d - n) = d) => q % 2 = 0

\* The reference final score of an analysis before rounding, in units of 1e-7
ReferenceFinal(analysis) ==
    LET signals == analysis.signals
        momentum == Min(10, 2 + 4 * Flag(signals.ema_aligned)
                              + 2 * Flag(signals.ema_cross)
                              + 2 * Flag(signals.rsi_bullish))
        volume == Min(10, 4 + 3 * Flag(signals.volume_surge)
                            + 3 * Flag(analysis.volume_24h > 50000))
        technical == Min(10, 3 + 3 * Flag(signals.macd_signal = "buy")
                               + 2 * Flag(signals.trend = "bullish")
                               + 2 * Flag(signals.rsi_value >= 4000
                                          /\ signals.rsi_value <= 6000))
        risk == Max(0, 10000 - 12 * analysis.indicators.atr_percent)
    IN  (35000 * momentum + 25000 * volume + 25000 * technical + 15 * risk)
            * market_cap_multiplier(analysis.market_cap)

\* C12: calculate_score gives momentum = min(10, 2 + 4[ema_aligned] +
\* 2[ema_cross] + 2[rsi_bullish]), volume = min(10, 4 + 3[volume_surge] +
\* 3[volume_24h > 50,000,000]), technical = min(10, 3 + 3[macd buy] +
\* 2[trend bullish] + 2[40 <= rsi_value <= 60]), risk = max(0, 10 - 1.2
\* atr_percent) and final = (0.35 momentum + 0.25 volume + 0.25 technical +
\* 0.15 risk) * market_cap_multiplier(market_cap), each rounded to 2 decimals,
\* and the 7.5 floor is tested on the rounded final_score.
C12_ScoreFormula ==
    (Returned("calculate_score") /\ call.ret.analysis # None) =>
        LET analysis == call.ret.analysis
            signals == analysis.signals
            scores == call.ret.scores
        IN  /\ scores.momentum_score =
                   100 * Min(10, 2 + 4 * Flag(signals.ema_aligned)
                                   + 2 * Flag(signals.ema_cross)
                                   + 2 * Flag(signals.rsi_bullish))
            /\ scores.volume_score =
                   100 * Min(10, 4 + 3 * Flag(signals.volume_surge)
                                   + 3 * Flag(analysis.volume_24h > 50000))
            /\ scores.technical_score =
                   100 * Min(10, 3 + 3 * Flag(signals.macd_signal = "buy")
                                   + 2 * Flag(signals.trend = "bullish")
                                   + 2 * Flag(signals.rsi_value >= 4000
                                              /\ signals.rsi_value <= 6000))
            /\ scores.risk_score =
                   Nearest(Max(0, 10000 - 12 * analysis.indicators.atr_percent),
                           10)
            /\ scores.final_score = Nearest(ReferenceFinal(analysis), 100000)
            /\ call.ret.below
                   <=> Nearest(ReferenceFinal(analysis), 100000) < 750

\* A final score of 7.4968 before rounding: it is rounded to 7.5 and passes
\* the floor.
C12_Witness ==
    /\ Returned("calculate_score")
    /\ call.ret.analysis # None
    /\ ReferenceFinal(call.ret.analysis) = 74968000
    /\ call.ret.scores.final_score = 750
    /\ ~call.ret.below

\* C13: an analysis whose market_cap is exactly 100,000,000 is not skipped by
\* the market-cap floor, but its multiplier is 0.0 and its final_score 0, so it
\* is neither in top_opportunities nor counted in total_qualified; every
\* selected signal has market_cap > 100,000,000.
C13_FloorExcluded ==
    Selected =>
        LET analyzed == technical_data.analyzed_coins
            top == selected_file.top_opportunities
            above == {k \in 1..Len(analyzed) : analyzed[k].market_cap > 100000}
        IN  /\ \A k \in 1..Len(analyzed) :
                   analyzed[k].market_cap = 100000 =>
                       /\ ~BelowMarketCap(analyzed[k])
                       /\ market_cap_multiplier(analyzed[k].market_cap) = 0
                       /\ calculate_score(analyzed[k]).final_score = 0
                       /\ \A i \in 1..Len(top) :
                              top[i].symbol # analyzed[k].symbol
            /\ \A i \in 1..Len(top) : top[i].market_cap > 100000
            /\ \A i \in 1..Len(top_signals) : top_signals[i].market_cap > 100000
            /\ selected_file.total_qualified <= Cardinality(above)

\* A batch of a record at exactly the floor, with every signal set, and one
\* above it: both are analyzed, only the second is selected.
C13_Witness ==
    /\ Selected
    /\ Len(technical_data.analyzed_coins) = 2
    /\ technical_data.analyzed_coins[1].market_cap = 100000
    /\ technical_data.analyzed_coins[1].signals.ema_aligned
    /\ technical_data.analyzed_coins[2].market_cap > 100000
    /\ selected_file.total_qualified = 1
    /\ Len(selected_file.top_opportunities) = 1
    /\ selected_file.top_opportunities[1].symbol = 2

\* C14: when the two jobs overlap, the report a job sends is the RunResult its
\* own select_top_opportunities produced.
C14_OwnReport ==
    pc = "overlap" =>
        \A j \in Jobs :
            runs[j].report # None => runs[j].report = runs[j].result

FailedStatuses ==
    {"Failed - No data", "Failed - Analysis error", "Failed - TypeError",
     "Failed - float division by zero"}

\* C15: an invocation of run_crypto_analysis ends with last_run set by it:
\* status 'Success' with signals = the number of selected top signals (at most
\* 10) only if collection, analysis, selection and the report step completed
\* without exception; otherwise a status starting with 'Failed' and signals 0.
\* Nothing is sent to the notifier before selection has completed.
C15_LastRun ==
    /\ report # None => (selected_file # None /\ report = selected_file)
    /\ pc = "done" =>
           /\ last_run # NeverRun
           /\ IF last_run.status = "Success"
              THEN /\ coins # <<>>
                   /\ technical_data # None
                   /\ technical_data.analyzed_coins # <<>>
                   /\ selected_file # None
                   /\ raised = ""
                   /\ report = selected_file
                   /\ \A i \in 1..Len(top_signals) : top_signals[i].price # 0
                   /\ last_run.signals = Len(top_signals)
                   /\ last_run.signals <= 10
              ELSE /\ last_run.status \in FailedStatuses
                   /\ last_run.signals = 0
                   /\ \/ coins = <<>>
                      \/ technical_data.analyzed_coins = <<>>
                      \/ raised # ""

\* A run whose selection succeeded and whose report step raised: the header
\* went out, the run is recorded as failed with 0 signals.
C15_Witness ==
    /\ pc = "done"
    /\ top_signals # <<>>
    /\ report # None
    /\ raised = "ZeroDivisionError"
    /\ last_run = [status |-> "Failed - float division by zero", signals |-> 0]

\* C16: fetch_ohlc_with_retry makes at most max_retries requests, makes another
\* request only after a rate-limit (429) response, returns the parsed bars on
\* the first successful non-empty response, and returns an empty DataFrame
\* after any other error or once max_retries attempts were rate-limited.
C16_RetryOnlyOn429 ==
    pc = "fetch" =>
        /\ Len(runs) <= call.arg.max_retries
        /\ \A i \in 1..(Len(runs) - 1) : runs[i] = "429"
        /\ call.done =>
               /\ call.ret \in {BarsFrame, EmptyFrame}
               /\ call.ret = BarsFrame
                      <=> (runs # <<>> /\ runs[Len(runs)] = "bars")
               /\ (runs # <<>> /\ runs[Len(runs)] = "429")
                      => Len(runs) = call.arg.max_retries

=============================================================================
